---- MODULE Spec2Model ----
(***************************************************************************)
(* A model of the Sudoku solver of sudoku_solver.py (class Sudoku and its  *)
(* main loop) and of the main loop of sudoku_solver_old.py.                *)
(*                                                                         *)
(* A Python string is modelled as a sequence of one-character strings:     *)
(* '123' is <<"1","2","3">> and '' is <<>>.  A square name such as 'A1'   *)
(* is the two-character string <<"A","1">>.                                *)
(***************************************************************************)
EXTENDS Integers, Sequences, FiniteSets, TLC

VARIABLES
    pc,        \* position of the program (see the actions)
    grid,      \* self.grid: square -> string
    values,    \* self.values: square -> string of the digits still possible
    hashseed,  \* decides the iteration order of the peer sets (str hashing)
    stack,     \* the active calls of search, outermost first
    file_chars, \* chars of grid_values: the puzzle characters of the file read
    clues,     \* self.grid as load_file left it
    propagated, \* self.values and self.grid as propagate left them
    files      \* the files the main of sudoku_solver_old.py has read

vars ==
    <<pc, grid, values, hashseed, stack, file_chars, clues, propagated, files>>

----------------------------------------------------------------------------
(* Python strings *)

Range(f) == {f[i] : i \in DOMAIN f}

\* sub in str, for str a Python string: sub is a contiguous part of str
In(sub, str) ==
    IF Len(sub) = 1 THEN \E i \in 1..Len(str) : str[i] = sub[1]
    ELSE \E i \in 0..(Len(str) - Len(sub)) :
             \A j \in 1..Len(sub) : str[i + j] = sub[j]

\* str.replace(old, ''), for old of at most one character; replacing ''
\* by '' leaves the string as it is
Replace(str, old) ==
    IF old = <<>> THEN str ELSE SelectSeq(str, LAMBDA ch : ch # old[1])

\* the concatenation of a sequence of sequences: sum(lists, [])
RECURSIVE Flatten(_)
Flatten(ss) == IF ss = <<>> THEN <<>> ELSE Head(ss) \o Flatten(Tail(ss))

----------------------------------------------------------------------------
(* Sudoku.__init__: the topology *)

digits == <<"1", "2", "3", "4", "5", "6", "7", "8", "9">>
rows == <<"A", "B", "C", "D", "E", "F", "G", "H", "I">>
cols == digits

\* [a + b for a in A for b in B]
cross_product(A, B) ==
    [k \in 1..(Len(A) * Len(B)) |->
        <<A[((k - 1) \div Len(B)) + 1], B[((k - 1) % Len(B)) + 1]>>]

squares == cross_product(rows, cols)

Squares == Range(squares)

row_bands == << <<"A", "B", "C">>, <<"D", "E", "F">>, <<"G", "H", "I">> >>
col_stacks == << <<"1", "2", "3">>, <<"4", "5", "6">>, <<"7", "8", "9">> >>

unitlist ==
    [i \in 1..Len(cols) |-> cross_product(rows, <<cols[i]>>)]
    \o [i \in 1..Len(rows) |-> cross_product(<<rows[i]>>, cols)]
    \o [k \in 1..(Len(row_bands) * Len(col_stacks)) |->
          cross_product(row_bands[((k - 1) \div Len(col_stacks)) + 1],
                        col_stacks[((k - 1) % Len(col_stacks)) + 1])]

units == [s \in Squares |-> SelectSeq(unitlist, LAMBDA u : s \in Range(u))]

\* the squares of the units of s, s itself not taken out
peers_with_self == [s \in Squares |-> Range(Flatten(units[s]))]

peers == [s \in Squares |-> Range(Flatten(units[s])) \ {s}]

\* the position of a square in self.squares
position == [s \in Squares |-> CHOOSE k \in 1..Len(squares) : squares[k] = s]
index_of(s) == position[s]

\* A set of squares in row-major order.
RECURSIVE sorted_squares(_)
sorted_squares(S) ==
    IF S = {} THEN <<>>
    ELSE LET first == CHOOSE s \in S : \A t \in S : index_of(s) <= index_of(t)
         IN <<first>> \o sorted_squares(S \ {first})

Reverse(seq) == [i \in 1..Len(seq) |-> seq[Len(seq) + 1 - i]]

\* The order in which "for peer in self.peers[s]" visits the set depends on
\* the hashes of the strings, which change from one interpreter run to the
\* next; two of the possible orders are modelled.
HashSeeds == {"fwd", "rev"}

peers_fwd == [s \in Squares |-> sorted_squares(peers[s])]
peers_rev == [s \in Squares |-> Reverse(sorted_squares(peers[s]))]

peer_iteration(seed, s) == IF seed = "fwd" THEN peers_fwd[s] ELSE peers_rev[s]

\* dict((s, self.digits) for s in self.squares)
initial_values == [s \in Squares |-> digits]

----------------------------------------------------------------------------
(* Sudoku.propagate.                                                       *)
(*                                                                         *)
(* The recursion of propagate_constraints is followed call by call with    *)
(* an explicit call stack, as the interpreter runs it.  A run m holds      *)
(*   values, grid  self.values and self.grid                               *)
(*   k             the position of propagate's loop in self.grid.items()   *)
(*   remaining     remaining_values of that pass of the loop               *)
(*   j             the position of the inner loop in remaining_values,     *)
(*                 0 before the pass has looked at its square              *)
(*   frames        the calls of propagate_constraints that are in their    *)
(*                 loop over the peers: the square and the position i of   *)
(*                 the next peer, innermost call last                      *)
(***************************************************************************)

\* propagate_constraints(_square, _value) from its entry to its loop:
\* lines 92-100.  A call that reaches the loop is pushed.
enter_propagate_constraints(m, _square, _value) ==
    IF ~In(_value, m.values[_square]) THEN m
    ELSE IF Len(Replace(m.values[_square], _value)) = 1
    THEN [m EXCEPT !.values[_square] = Replace(@, _value),
                   !.grid[_square] = Replace(m.values[_square], _value),
                   !.frames = Append(@, [square |-> _square, i |-> 1])]
    ELSE [m EXCEPT !.values[_square] = Replace(@, _value)]

\* "for peer in self.peers[_square]: propagate_constraints(peer,
\* self.values[_square])" of the innermost call: the next call is made,
\* with the domain of _square as it is now; the call returns when no peer
\* is left.
step_peers(seed, m, frame) ==
    IF frame.i > Len(peer_iteration(seed, frame.square))
    THEN [m EXCEPT !.frames = SubSeq(@, 1, Len(@) - 1)]
    ELSE enter_propagate_constraints(
             [m EXCEPT !.frames[Len(m.frames)].i = @ + 1],
             peer_iteration(seed, frame.square)[frame.i],
             m.values[frame.square])

\* the loop of propagate leaving the inner loop after its first pass
step_loop_first_only(m, order) ==
    IF m.j = 0
    THEN IF In(m.grid[order[m.k]], digits)
         THEN [m EXCEPT !.remaining = Replace(m.values[order[m.k]],
                                              m.grid[order[m.k]]),
                        !.j = 1]
         ELSE [m EXCEPT !.k = @ + 1]
    ELSE IF m.j > 1 \/ m.j > Len(m.remaining)
    THEN [m EXCEPT !.k = @ + 1, !.j = 0]
    ELSE enter_propagate_constraints([m EXCEPT !.j = @ + 1], order[m.k],
                                     <<m.remaining[m.j]>>)

\* the loop of propagate passing over a clue whose domain is no longer full
step_loop_untouched_only(m, order) ==
    IF m.j = 0
    THEN IF In(m.grid[order[m.k]], digits) /\ m.values[order[m.k]] = digits
         THEN [m EXCEPT !.remaining = Replace(m.values[order[m.k]],
                                              m.grid[order[m.k]]),
                        !.j = 1]
         ELSE [m EXCEPT !.k = @ + 1]
    ELSE IF m.j > Len(m.remaining)
    THEN [m EXCEPT !.k = @ + 1, !.j = 0]
    ELSE enter_propagate_constraints([m EXCEPT !.j = @ + 1], order[m.k],
                                     <<m.remaining[m.j]>>)

\* "for square, value in self.grid.items()" and, inside it, "for
\* other_value in remaining_values": lines 104-110.  The value is the one
\* the grid holds when the loop reaches the square.
step_loop(m, order) ==
    IF m.j = 0
    THEN IF In(m.grid[order[m.k]], digits)
         THEN [m EXCEPT !.remaining = Replace(m.values[order[m.k]],
                                              m.grid[order[m.k]]),
                        !.j = 1]
         ELSE [m EXCEPT !.k = @ + 1]
    ELSE IF m.j > Len(m.remaining)
    THEN [m EXCEPT !.k = @ + 1, !.j = 0]
    ELSE enter_propagate_constraints([m EXCEPT !.j = @ + 1], order[m.k],
                                     <<m.remaining[m.j]>>)

propagate_done(m, order) == m.frames = <<>> /\ m.k > Len(order)

propagate_step(seed, m, order) ==
    IF m.frames # <<>> THEN step_peers(seed, m, m.frames[Len(m.frames)])
    ELSE step_loop(m, order)

\* More steps than any run of propagate takes.
StepBudget == 16384
OldStepBudget == 32768

\* n steps from m, or as many as the run has.  (The steps are taken in
\* order; the count is halved, and the state in the middle bound as a
\* value, to keep the evaluation shallow.)
RECURSIVE propagate_run(_, _, _, _)
propagate_run(seed, m, order, n) ==
    IF propagate_done(m, order) THEN m
    ELSE IF n = 1 THEN propagate_step(seed, m, order)
    ELSE CHOOSE after \in
             {propagate_run(seed, half, order, n - (n \div 2)) :
                 half \in {propagate_run(seed, m, order, n \div 2)}} :
             TRUE

\* propagate with its loop going through the squares in the given order
propagate_in_order(seed, st, order) ==
    propagate_run(seed,
                  [values |-> st.values, grid |-> st.grid, k |-> 1, j |-> 0,
                   remaining |-> <<>>, frames |-> <<>>],
                  order, StepBudget)

board_state(m) == [values |-> m.values, grid |-> m.grid]

\* self.grid.items() yields the squares in insertion order, the order of
\* self.squares (grid_values zips self.squares with the characters)
propagate(seed, st) == board_state(propagate_in_order(seed, st, squares))

----------------------------------------------------------------------------
(* The puzzle files given on the command line *)

\* The grid the program itself prints for the empty puzzle.
Base ==
    Flatten(<< <<"1", "2", "3", "4", "5", "6", "7", "8", "9">>,
               <<"4", "5", "6", "7", "8", "9", "1", "2", "3">>,
               <<"7", "8", "9", "1", "2", "3", "4", "5", "6">>,
               <<"2", "1", "4", "3", "6", "5", "8", "9", "7">>,
               <<"3", "6", "5", "8", "9", "7", "2", "1", "4">>,
               <<"8", "9", "7", "2", "1", "4", "3", "6", "5">>,
               <<"5", "3", "1", "6", "4", "2", "9", "7", "8">>,
               <<"6", "4", "2", "9", "7", "8", "5", "3", "1">>,
               <<"9", "7", "8", "5", "3", "1", "6", "4", "2">> >>)

\* A nearly full puzzle blanks the first squares of this list, at most
\* MaxBlanks of them.  With the first six blank, propagation decides none
\* of the six.
MaxBlanks == 6
BlankCandidates ==
    << <<"A", "2">>, <<"A", "8">>, <<"B", "5">>, <<"B", "8">>, <<"C", "2">>,
       <<"C", "5">>, <<"E", "5">>, <<"I", "1">> >>

Blanked(n) ==
    {BlankCandidates[k] : k \in 1..n}

\* The clues of the sparse puzzle.
SparseClues ==
    {<<"B", "1">>, <<"B", "2">>, <<"B", "3">>, <<"C", "1">>, <<"C", "2">>,
     <<"C", "3">>, <<"A", "4">>}

\* A puzzle may hold one clue that is not the digit of Base.
NoOverride == [square |-> <<>>, digit |-> ""]
Overrides ==
    {NoOverride,
     [square |-> <<"I", "9">>, digit |-> "5"],
     [square |-> <<"A", "1">>, digit |-> "2"],
     [square |-> <<"E", "5">>, digit |-> "2"],
     [square |-> <<"A", "3">>, digit |-> "1"],
     [square |-> <<"A", "4">>, digit |-> "3"]}
SparseOverrides ==
    {NoOverride,
     [square |-> <<"A", "4">>, digit |-> "3"]}

BlankChars == {".", "0"}

\* the 81 characters of a puzzle, row by row: the squares of kept hold the
\* digit of Base, the square of the override its digit
Board(kept, ov, blank) ==
    [k \in 1..Len(squares) |->
        IF squares[k] = ov.square THEN ov.digit
        ELSE IF squares[k] \in kept THEN Base[k]
        ELSE blank]

DenseBoards ==
    {Board(Squares \ Blanked(n), ov, blank) :
        n \in 0..(IF MaxBlanks < Len(BlankCandidates) THEN MaxBlanks
                  ELSE Len(BlankCandidates)),
        ov \in Overrides, blank \in BlankChars}

SparseBoards ==
    {Board(SparseClues, ov, blank) : ov \in SparseOverrides, blank \in BlankChars}

Boards == DenseBoards \cup SparseBoards

\* A file holds a puzzle on one line or with a line break after every row,
\* says up to MaxExtra characters too many or up to MaxMissing too few.
MaxExtra == 1
MaxMissing == 1

RowLength == Len(cols)

WithLineBreaks(chars) ==
    [k \in 1..(Len(chars) + Len(chars) \div RowLength) |->
        IF k % (RowLength + 1) = 0 THEN "\n"
        ELSE chars[k - (k \div (RowLength + 1))]]

Texts ==
    UNION {
        {b, WithLineBreaks(b)}
        \cup {b \o [i \in 1..n |-> b[i]] : n \in 1..MaxExtra}
        \cup {WithLineBreaks(b \o [i \in 1..n |-> b[i]]) : n \in 1..MaxExtra}
        \cup {SubSeq(b, 1, Len(b) - n) : n \in 1..MaxMissing}
        : b \in Boards}

----------------------------------------------------------------------------
(* Sudoku.grid_values and Sudoku.load_file *)

\* [c for c in grid if c in self.digits or c in '0.']
grid_chars(t) ==
    SelectSeq(t, LAMBDA c : In(<<c>>, digits) \/ In(<<c>>, <<"0", ".">>))

\* dict(zip(self.squares, chars)), each value a one-character string
zip_squares(chars) ==
    [s \in {squares[k] : k \in 1..Len(squares)} |-> <<chars[index_of(s)]>>]

grid_values(t) == CHOOSE g \in {zip_squares(chars) : chars \in {grid_chars(t)}} : TRUE

\* the assertion asking for at least as many characters as squares
grid_values_asserts_enough(t) == Len(grid_chars(t)) >= Len(squares)

grid_values_asserts(t) == Len(grid_chars(t)) = Len(squares)

----------------------------------------------------------------------------
(* Sudoku.search and its helpers *)

\* all(len(v) == 1 for s, v in self.values.items())
all_single(vals) == \A s \in Squares : Len(vals[s]) = 1

\* {s: len(self.values[s]) for s, v in self.values.items() if len(v) > 1}
blank_squares(vals) == {s \in Squares : Len(vals[s]) > 1}

\* sorted(blank_squares.items(), key=lambda x: x[1])[0][0]: the sort is
\* stable, so among the shortest domains the first square of self.squares
\* wins.  Only taken when there is a blank square.
get_square_with_minimum_remaining_possible_values(vals) ==
    CHOOSE s \in blank_squares(vals) :
        \A t \in blank_squares(vals) :
            \/ Len(vals[s]) < Len(vals[t])
            \/ Len(vals[s]) = Len(vals[t]) /\ index_of(s) <= index_of(t)

\* is_allowed_in_square(square, value), for the grid g
is_allowed_in_square(g, square, value) ==
    \A peer \in peers[square] : ~(peer # square /\ In(value, g[peer]))

\* the frame of the call of search that is running
Top == stack[Len(stack)]

----------------------------------------------------------------------------
(* The program sudoku_solver.py: main, and solve step by step *)

Init ==
    /\ pc = "main"
    /\ grid = <<>>
    /\ values = <<>>
    /\ hashseed \in HashSeeds
    /\ stack = <<>>
    /\ file_chars = <<>>
    /\ clues = <<>>
    /\ propagated = [values |-> <<>>, grid |-> <<>>]
    /\ files = 0

\* s = Sudoku(): main builds a new solver for every file
Sudoku_init ==
    /\ pc = "main"
    /\ pc' = "constructed"
    /\ grid' = <<>>
    /\ values' = initial_values
    /\ stack' = <<>>
    /\ file_chars' = <<>>
    /\ clues' = <<>>
    /\ propagated' = [values |-> <<>>, grid |-> <<>>]
    /\ UNCHANGED <<hashseed, files>>

\* s.load_file(filename), the file holding the text t: grid_values raises
\* AssertionError, which nothing catches, unless t has as many puzzle
\* characters as there are squares.
load_file ==
    /\ pc = "constructed"
    /\ \E t \in Texts :
        /\ file_chars' = grid_chars(t)
        /\ IF grid_values_asserts(t)
           THEN /\ grid' = grid_values(t)
                /\ clues' = grid_values(t)
                /\ pc' = "loaded"
           ELSE /\ pc' = "AssertionError"
                /\ UNCHANGED <<grid, clues>>
    /\ UNCHANGED <<values, hashseed, stack, propagated, files>>

\* s.solve() up to the call of search: self.propagate() has returned
\* self.values and search is about to be entered with it
solve ==
    /\ pc = "loaded"
    /\ \E st \in {propagate(hashseed, [values |-> values, grid |-> grid])} :
        /\ values' = st.values
        /\ grid' = st.grid
        /\ propagated' = st
    /\ pc' = "call"
    /\ UNCHANGED <<hashseed, stack, file_chars, clues, files>>

\* A call of search from its entry to its loop: it returns True when every
\* domain is a single digit, in which case every caller returns at once and
\* solve is over; otherwise it picks the square to branch on, and without a
\* blank square blank_squares[0] raises IndexError, which nothing catches.
search ==
    /\ pc = "call"
    /\ IF all_single(values)
       THEN /\ pc' = "Solved"
            /\ stack' = <<>>
       ELSE IF blank_squares(values) = {}
       THEN /\ pc' = "IndexError"
            /\ UNCHANGED stack
       ELSE /\ pc' = "loop"
            /\ stack' = Append(stack,
                   [next_blank_square |->
                        get_square_with_minimum_remaining_possible_values(values),
                    current_domain |->
                        values[get_square_with_minimum_remaining_possible_values(values)],
                    i |-> 1,
                    entry_values |-> values])
    /\ UNCHANGED <<grid, values, hashseed, file_chars, clues, propagated, files>>

\* One pass of "for domain_value in self.values[next_blank_square]" up to
\* the recursive call: an allowed digit is placed and search is called, a
\* digit that is not allowed is skipped.
search_try ==
    /\ pc = "loop"
    /\ Top.i <= Len(Top.current_domain)
    /\ IF is_allowed_in_square(grid, Top.next_blank_square,
                               <<Top.current_domain[Top.i]>>)
       THEN /\ grid' = [grid EXCEPT ![Top.next_blank_square] =
                            <<Top.current_domain[Top.i]>>]
            /\ values' = [values EXCEPT ![Top.next_blank_square] =
                              <<Top.current_domain[Top.i]>>]
            /\ pc' = "call"
            /\ UNCHANGED stack
       ELSE /\ stack' = [stack EXCEPT ![Len(stack)].i = @ + 1]
            /\ UNCHANGED <<pc, grid, values>>
    /\ UNCHANGED <<hashseed, file_chars, clues, propagated, files>>

\* return False: the loop is over.  The outermost call returning ends solve.
search_return_false ==
    /\ pc = "loop"
    /\ Top.i > Len(Top.current_domain)
    /\ stack' = SubSeq(stack, 1, Len(stack) - 1)
    /\ pc' = IF Len(stack) = 1 THEN "Exhausted" ELSE "returned_false"
    /\ UNCHANGED <<grid, values, hashseed, file_chars, clues, propagated, files>>

\* the caller going on with its next digit without "clear assignment"
search_without_undo ==
    /\ pc = "returned_false"
    /\ stack' = [stack EXCEPT ![Len(stack)].i = @ + 1]
    /\ pc' = "loop"
    /\ UNCHANGED <<grid, values, hashseed, file_chars, clues, propagated,
                   files>>

\* the caller restoring the domain and leaving the digit in the grid
search_undo_domain_only ==
    /\ pc = "returned_false"
    /\ values' = [values EXCEPT ![Top.next_blank_square] = Top.current_domain]
    /\ stack' = [stack EXCEPT ![Len(stack)].i = @ + 1]
    /\ pc' = "loop"
    /\ UNCHANGED <<grid, hashseed, file_chars, clues, propagated, files>>

\* The caller after a recursive call that returned False: it clears the
\* assignment and goes on with its next digit.
search_undo ==
    /\ pc = "returned_false"
    /\ grid' = [grid EXCEPT ![Top.next_blank_square] = <<>>]
    /\ values' = [values EXCEPT ![Top.next_blank_square] = Top.current_domain]
    /\ stack' = [stack EXCEPT ![Len(stack)].i = @ + 1]
    /\ pc' = "loop"
    /\ UNCHANGED <<hashseed, file_chars, clues, propagated, files>>

\* solve has returned: main prints the grid and turns to the next file
main_next ==
    /\ pc \in {"Solved", "Exhausted"}
    /\ pc' = "main"
    /\ UNCHANGED <<grid, values, hashseed, stack, file_chars, clues, propagated,
                   files>>

----------------------------------------------------------------------------
(* sudoku_solver_old.py: Sudoku.propagate with remove_value, the search    *)
(* that is still to be written, and a main that builds one solver for all  *)
(* the files.  __init__, load_file and grid_values are those above.        *)
(*                                                                         *)
(* A run holds what a run of propagate above holds; a frame is a call of   *)
(* remove_value(square, value) past its test:                              *)
(*   phase   "peers" in the loop over the peers, "units" in the loop over  *)
(*           self.units[square]                                            *)
(*   i       the position of the next peer                                 *)
(*   u       the position of the unit being looked at                      *)
(*   placed  possible_placements[0] of that unit                           *)
(*   others  other_values of that unit                                     *)
(*   j       the position of the inner loop in other_values, 0 before the  *)
(*           unit has been looked at                                       *)
(***************************************************************************)

\* remove_value(square, value) from its entry to its first loop
enter_remove_value(m, square, value) ==
    IF ~In(value, m.values[square]) THEN m
    ELSE [m EXCEPT !.values[square] = Replace(@, value),
                   !.frames = Append(@,
                       [square |-> square,
                        value |-> value,
                        phase |-> IF Len(Replace(m.values[square], value)) = 1
                                  THEN "peers" ELSE "units",
                        i |-> 1, u |-> 1, placed |-> <<>>, others |-> <<>>,
                        j |-> 0])]

\* "for peer in self.peers[square]: remove_value(peer, self.values[square])"
remove_value_peers(seed, m, frame) ==
    IF frame.i > Len(peer_iteration(seed, frame.square))
    THEN [m EXCEPT !.frames[Len(m.frames)].phase = "units"]
    ELSE enter_remove_value(
             [m EXCEPT !.frames[Len(m.frames)].i = @ + 1],
             peer_iteration(seed, frame.square)[frame.i],
             m.values[frame.square])

\* [square for square in unit if value in self.values[square]]
possible_placements(m, unit, value) ==
    SelectSeq(unit, LAMBDA square : In(value, m.values[square]))

\* "for unit in self.units[square]" and the loop over other_values in it;
\* the call returns after the last unit
remove_value_units(m, frame) ==
    IF frame.u > Len(units[frame.square])
    THEN [m EXCEPT !.frames = SubSeq(@, 1, Len(@) - 1)]
    ELSE IF frame.j = 0
    THEN IF Len(possible_placements(m, units[frame.square][frame.u],
                                    frame.value)) = 1
         THEN [m EXCEPT
                  !.grid[possible_placements(m, units[frame.square][frame.u],
                                             frame.value)[1]] = frame.value,
                  !.frames[Len(m.frames)].placed =
                      possible_placements(m, units[frame.square][frame.u],
                                          frame.value)[1],
                  !.frames[Len(m.frames)].others =
                      Replace(m.values[possible_placements(
                                  m, units[frame.square][frame.u],
                                  frame.value)[1]],
                              frame.value),
                  !.frames[Len(m.frames)].j = 1]
         ELSE [m EXCEPT !.frames[Len(m.frames)].u = @ + 1]
    ELSE IF frame.j > Len(frame.others)
    THEN [m EXCEPT !.frames[Len(m.frames)].u = @ + 1,
                   !.frames[Len(m.frames)].j = 0]
    ELSE enter_remove_value(
             [m EXCEPT !.frames[Len(m.frames)].j = @ + 1],
             frame.placed, <<frame.others[frame.j]>>)

\* "for square, digit in self.grid.items()" and the loop over
\* remaining_values in it
remove_value_loop(m, order) ==
    IF m.j = 0
    THEN IF In(m.grid[order[m.k]], digits)
         THEN [m EXCEPT !.remaining = Replace(m.values[order[m.k]],
                                              m.grid[order[m.k]]),
                        !.j = 1]
         ELSE [m EXCEPT !.k = @ + 1]
    ELSE IF m.j > Len(m.remaining)
    THEN [m EXCEPT !.k = @ + 1, !.j = 0]
    ELSE enter_remove_value([m EXCEPT !.j = @ + 1], order[m.k],
                            <<m.remaining[m.j]>>)

old_propagate_step(seed, m, order) ==
    IF m.frames = <<>> THEN remove_value_loop(m, order)
    ELSE IF m.frames[Len(m.frames)].phase = "peers"
    THEN remove_value_peers(seed, m, m.frames[Len(m.frames)])
    ELSE remove_value_units(m, m.frames[Len(m.frames)])

RECURSIVE old_propagate_run(_, _, _, _)
old_propagate_run(seed, m, order, n) ==
    IF propagate_done(m, order) THEN m
    ELSE IF n = 1 THEN old_propagate_step(seed, m, order)
    ELSE CHOOSE after \in
             {old_propagate_run(seed, half, order, n - (n \div 2)) :
                 half \in {old_propagate_run(seed, m, order, n \div 2)}} :
             TRUE

old_propagate(seed, st) ==
    board_state(old_propagate_run(seed,
                    [values |-> st.values, grid |-> st.grid, k |-> 1,
                     j |-> 0, remaining |-> <<>>, frames |-> <<>>],
                    squares, OldStepBudget))

\* The files given to the main of sudoku_solver_old.py: at most MaxFiles,
\* each a puzzle of OldBoards on one line or a text one character too long.
MaxFiles == 2

OldBoards ==
    {Board(Squares \ Blanked(n), NoOverride, ".") : n \in {0, MaxBlanks}}
    \cup {Board(Squares \ Blanked(MaxBlanks),
                [square |-> <<"A", "1">>, digit |-> "2"], ".")}
    \cup {Board(SparseClues, NoOverride, ".")}

OldTexts ==
    OldBoards \cup {b \o <<b[1]>> : b \in {Board(Squares, NoOverride, ".")}}

InitOld ==
    /\ pc = "old_main"
    /\ grid = <<>>
    /\ values = <<>>
    /\ hashseed \in HashSeeds
    /\ stack = <<>>
    /\ file_chars = <<>>
    /\ clues = <<>>
    /\ propagated = [values |-> <<>>, grid |-> <<>>]
    /\ files = 0

\* s = Sudoku(), once, before the loop over the files
old_Sudoku_init ==
    /\ pc = "old_main"
    /\ pc' = "old_loop"
    /\ grid' = <<>>
    /\ values' = initial_values
    /\ UNCHANGED <<hashseed, stack, file_chars, clues, propagated, files>>

\* s.load_file(sys.argv[x]) on that solver
old_load_file ==
    /\ pc = "old_loop"
    /\ files < MaxFiles
    /\ files' = files + 1
    /\ \E t \in OldTexts :
        /\ file_chars' = grid_chars(t)
        /\ IF grid_values_asserts(t)
           THEN /\ grid' = grid_values(t)
                /\ clues' = grid_values(t)
                /\ pc' = "old_loaded"
           ELSE /\ pc' = "AssertionError"
                /\ UNCHANGED <<grid, clues>>
    /\ UNCHANGED <<values, hashseed, stack, propagated>>

\* s.solve(): self.search(self.propagate()), search returning the values it
\* is given
old_solve ==
    /\ pc = "old_loaded"
    /\ \E st \in {old_propagate(hashseed, [values |-> values, grid |-> grid])} :
        /\ values' = st.values
        /\ grid' = st.grid
        /\ propagated' = st
    /\ pc' = "old_loop"
    /\ UNCHANGED <<hashseed, stack, file_chars, clues, files>>

\* the loop over sys.argv is over
old_main_return ==
    /\ pc = "old_loop"
    /\ files = MaxFiles
    /\ pc' = "old_done"
    /\ UNCHANGED <<grid, values, hashseed, stack, file_chars, clues, propagated,
                   files>>

NextOld ==
    \/ old_Sudoku_init
    \/ old_load_file
    \/ old_solve
    \/ old_main_return

SpecOld == InitOld /\ [][NextOld]_vars

Next ==
    \/ Sudoku_init
    \/ load_file
    \/ solve
    \/ search
    \/ search_try
    \/ search_return_false
    \/ search_undo
    \/ main_next

Spec == Init /\ [][Next]_vars

\* A search that has a next step takes it.
search_step == search \/ search_try \/ search_return_false \/ search_undo

SpecFair == Spec /\ WF_vars(search_step)

----------------------------------------------------------------------------
(* Properties *)

IsDigit(str) == Len(str) = 1 /\ In(str, digits)

\* every row, column and box of g holds each digit exactly once
ValidGrid(g) ==
    \A k \in 1..Len(unitlist) : \A d \in Range(digits) :
        Cardinality({s \in Range(unitlist[k]) : g[s] = <<d>>}) = 1

BaseGrid == zip_squares(Base)
BaseIsValid == ValidGrid(BaseGrid)

\* Base is a valid grid that keeps the clues c
AdmitsBase(c) ==
    /\ BaseIsValid
    /\ \A s \in Squares : IsDigit(c[s]) => c[s] = BaseGrid[s]

\* solve is running or over, on a board that load_file parsed
InSolve ==
    pc \in {"loaded", "call", "loop", "returned_false", "Solved", "Exhausted",
            "IndexError"}

\* propagate has returned and search has not been entered yet
AtPropagated == pc = "call" /\ stack = <<>>

SomeEmptyDomain(vals) == \E s \in Squares : vals[s] = <<>>

\* the running call of search is about to return False
ReturningFalse == pc = "loop" /\ Top.i > Len(Top.current_domain)

\* other orders for the loop of propagate: last square first, and column
\* by column
Orders ==
    {Reverse(squares),
     [k \in 1..Len(squares) |->
         <<rows[((k - 1) % Len(rows)) + 1], cols[((k - 1) \div Len(rows)) + 1]>>]}

\* C1: when solve ends Solved, every row, column and box of the grid holds
\* each digit once and every clue of the input is still in its square.
Validity ==
    pc = "Solved" =>
        /\ ValidGrid(grid)
        /\ \A s \in Squares : IsDigit(clues[s]) => grid[s] = clues[s]

\* C2: on a board whose clues admit a valid completion (here Base), solve
\* never ends Exhausted or with an exception, and the search entered on the
\* board that propagate left goes on to end Solved.
Completeness ==
    /\ []((InSolve /\ AdmitsBase(clues)) => pc \notin {"Exhausted", "IndexError"})
    /\ ((AtPropagated /\ AdmitsBase(clues)) ~> (pc = "Solved"))

\* a completable board on which propagation left squares open was Solved
CompletenessWitness ==
    /\ pc = "Solved"
    /\ AdmitsBase(clues)
    /\ \E s \in Squares : Len(propagated.values[s]) > 1

\* C3: when propagate leaves a square with an empty domain, search is not
\* run on the board: nothing is tried, no exception is raised, and solve
\* ends with the failure of search.
ContradictionReported ==
    (/\ pc \in {"call", "loop", "returned_false", "Solved", "Exhausted",
                "IndexError"}
     /\ SomeEmptyDomain(propagated.values))
        => \/ AtPropagated
           \/ pc = "Exhausted" /\ grid = propagated.grid

\* C4: on an 81-cell board, whenever solve is no longer running it has
\* ended Solved or Exhausted.
SolvedOrExhausted ==
    (InSolve /\ pc \notin {"loaded", "call", "loop", "returned_false"})
        => pc \in {"Solved", "Exhausted"}

\* C5 as stated: a text with more puzzle characters than squares is parsed,
\* and the squares hold its first characters in row-major order.
OverLongAccepted ==
    (pc \in {"loaded", "AssertionError"} /\ Len(file_chars) > Len(squares))
        => /\ pc = "loaded"
           /\ \A k \in 1..Len(squares) : grid[squares[k]] = <<file_chars[k]>>

\* C5 amended: grid_values succeeds exactly when the text has as many puzzle
\* characters as there are squares, and then the squares hold them in
\* row-major order; with more (or fewer) it raises AssertionError.
ExactLengthAccepted ==
    pc \in {"loaded", "AssertionError"} =>
        /\ pc = "loaded" <=> Len(file_chars) = Len(squares)
        /\ pc = "loaded" =>
               \A k \in 1..Len(squares) : grid[squares[k]] = <<file_chars[k]>>

\* a text with too many puzzle characters was read and refused
OverLongRefused == pc = "AssertionError" /\ Len(file_chars) > Len(squares)

\* C6: propagate run again on the board that propagate left changes no
\* domain.
Idempotence ==
    AtPropagated => propagate(hashseed, propagated).values = propagated.values

\* propagate reduced domains, some to nothing and some not to one digit
IdempotenceWitness ==
    /\ AtPropagated
    /\ SomeEmptyDomain(propagated.values)
    /\ \E s \in Squares : Len(propagated.values[s]) > 1

\* C7: in the topology that __init__ builds, y is a peer of x exactly when
\* x is a peer of y, no square is its own peer, and every square has 20
\* peers.
PeerSymmetry ==
    pc = "constructed" =>
        \A x \in Squares :
            /\ \A y \in Squares : y \in peers[x] <=> x \in peers[y]
            /\ x \notin peers[x]
            /\ Cardinality(peers[x]) = 20

\* a solver has been built; A1 and B2 share a box only
TopologyBuilt ==
    /\ pc = "constructed"
    /\ Cardinality(Squares) = 81
    /\ <<"B", "2">> \in peers[<<"A", "1">>]

\* C8: when a puzzle has been loaded and is about to be solved, every
\* domain is the full digit set and the grid holds the characters parsed
\* from the puzzle, also on a solver that has solved a puzzle before.
FreshBoardState ==
    pc \in {"loaded", "old_loaded"} =>
        /\ \A s \in Squares : values[s] = digits
        /\ \A k \in 1..Len(squares) : grid[squares[k]] = <<file_chars[k]>>

\* C9 as stated: on every board, the domains that propagate leaves are the
\* same when its loop goes through the squares in another order.
OrderIndependence ==
    AtPropagated =>
        \A order \in Orders :
            propagate_in_order(hashseed,
                               [values |-> initial_values, grid |-> clues],
                               order).values = propagated.values

\* C9 amended: on every board whose clues admit a valid completion (here
\* Base), the domains that propagate leaves are the same when its loop goes
\* through the squares in another order.
OrderIndependenceCompletable ==
    (AtPropagated /\ AdmitsBase(clues)) =>
        \A order \in Orders :
            propagate_in_order(hashseed,
                               [values |-> initial_values, grid |-> clues],
                               order).values = propagated.values

\* propagate ran on a completable board and left squares open
OrderIndependenceWitness ==
    /\ AtPropagated
    /\ AdmitsBase(clues)
    /\ \E s \in Squares : IsDigit(clues[s])
    /\ \E s \in Squares : Len(propagated.values[s]) > 1

\* C10: when a call of search returns False, every domain is what it was
\* when the call was entered and the square the call branched on holds no
\* digit in the grid; when solve ends Exhausted, the domains are those
\* propagate left and the grid holds no digit that propagate did not leave.
UndoOnDeadEnd ==
    /\ ReturningFalse =>
           /\ values = Top.entry_values
           /\ ~IsDigit(grid[Top.next_blank_square])
    /\ pc = "Exhausted" =>
           /\ values = propagated.values
           /\ \A s \in Squares :
                  IsDigit(grid[s]) => grid[s] = propagated.grid[s]

\* a call that placed a digit, saw the search below fail and cleared the
\* square is returning False to its own caller
UndoWitness ==
    /\ ReturningFalse
    /\ Len(stack) > 1
    /\ grid[Top.next_blank_square] = <<>>

====
